---- MODULE Spec2Model ----
(***************************************************************************)
(* GimbalPlugin (webpack-gimbal-plugin): the constructor's configuration   *)
(* merge, apply's hook registration, the emit hook's executeAudits /       *)
(* processMessages pipeline and the done hook's optimization-bailout       *)
(* report.                                                                 *)
(*                                                                         *)
(* JavaScript values are modelled as follows.                              *)
(*  - A string is a sequence of text units (each unit a TLA+ string), so   *)
(*    that concatenation, Array.prototype.toString and the regular         *)
(*    expression searches are computed, not assumed.                       *)
(*  - An object is a function whose DOMAIN is its set of own keys.         *)
(*  - An optional boolean `success` is one of "true", "false", "absent".   *)
(*  - cfg.optimizationBailout (boolean | string) is a tagged value.        *)
(***************************************************************************)
EXTENDS Integers, Sequences, FiniteSets

(* ------------------------------ bounds -------------------------------- *)

\* Longest list of jobs in an audit result tree.
MaxJobs == 2

\* Largest number of reports in an audit result tree (over all its jobs).
MaxReports == 2

\* Longest list of modules in a stats snapshot.
MaxModules == 2

(* --------------------------- generic helpers -------------------------- *)

SeqsUpTo(S, n) == UNION {[1..k -> S] : k \in 0..n}

\* A one-unit string.
Str(u) == <<u>>

(* ------------------------- JavaScript tagged values ------------------- *)

JSBool(b) == [type |-> "boolean", bool |-> b, str |-> <<>>]

JSString(s) == [type |-> "string", bool |-> FALSE, str |-> s]

\* ToBoolean: false and '' are falsy.
Truthy(v) == IF v.type = "boolean" THEN v.bool ELSE v.str # <<>>

\* Object.assign({}, a, b) for two source objects: b's own keys win.
ObjectAssign(a, b) == [k \in DOMAIN a \cup DOMAIN b |-> IF k \in DOMAIN b THEN b[k] ELSE a[k]]

(* ------------------------------ constructor --------------------------- *)

OptionKeys == {"buildDir", "comment", "verbose", "checkThresholds", "size", "calculateUnusedSource", "heapSnapshot", "lighthouse"}

\* defaults.options of the constructor.
DefaultOptions == [buildDir |-> <<>>, comment |-> TRUE, verbose |-> FALSE, checkThresholds |-> TRUE, size |-> TRUE, calculateUnusedSource |-> TRUE, heapSnapshot |-> TRUE, lighthouse |-> TRUE]

\* The constructor's defaults object.
Defaults == [bail |-> FALSE, optimizationBailout |-> JSBool(FALSE), options |-> DefaultOptions]

\* this.cfg after new GimbalPlugin(options).
Constructor(options) == ObjectAssign(Defaults, options)

\* The literal that executeAudits merges this.cfg.options over (cwd left out:
\* it is the compilation's output path, which no key of cfg.options names).
AuditDefaults == [buildDir |-> <<>>, comment |-> TRUE, verbose |-> FALSE, checkThresholds |-> TRUE]

\* The option set executeAudits hands to audit().
AuditArguments(c) == ObjectAssign(AuditDefaults, c.options)

(* ------------------------- constructor inputs ------------------------- *)

\* The nested `options` object a caller passes: a partial one, with a key
\* executeAudits defaults again and a key it does not.
NestedInputs == {[buildDir |-> Str("dist"), size |-> FALSE]}

BailoutInputs == {JSBool(TRUE), JSString(Str("report.json"))}

\* A caller's options object with exactly the top-level keys ks.
OptionsObject(ks, b, ob, o) == [k \in ks |-> CASE k = "bail" -> b [] k = "optimizationBailout" -> ob [] OTHER -> o]

\* new GimbalPlugin() and new GimbalPlugin({}) merge alike: the empty object.
ConstructorInputs == {OptionsObject(ks, b, ob, o) : ks \in SUBSET {"bail", "optimizationBailout", "options"}, b \in {TRUE}, ob \in BailoutInputs, o \in NestedInputs}

(* --------------------------- audit result tree ------------------------ *)

\* The optional boolean `success` of a result, a job or a report.
Success == {"true", "false", "absent"}

\* Variant of Not: only an explicit false counts (`result.success === false`).
NotStrict(success) == success = "false"

\* `!result.success`: false and undefined are falsy.
Not(success) == success # "true"

\* `results.success === false`.
StrictlyFalse(success) == success = "false"

\* GimbalJobReport values the runner returns.
Reports == [label : {Str("main.js")}, value : {Str("500kb")}, threshold : {Str("400kb")}, success : Success]

\* GimbalJobResult values whose data holds exactly k reports.
JobsWith(k) == [label : {Str("size")}, success : Success, data : [1..k -> Reports]]

RECURSIVE JobSeqs(_, _)
\* The lists of n jobs that hold at most `budget` reports between them.
JobSeqs(n, budget) == IF n = 0 THEN {<<>>} ELSE UNION {{<<j>> \o rest : j \in JobsWith(k), rest \in JobSeqs(n - 1, budget - k)} : k \in 0..budget}

\* GimbalResults trees the runner may resolve with.
AuditRuns == [success : Success, data : UNION {JobSeqs(n, MaxReports) : n \in 0..MaxJobs}]

\* The value of `results` while no audit has resolved.
NoResults == [success |-> "unassigned", data |-> <<>>]

(* ----------------------------- processMessages ------------------------ *)

\* The template literal of processMessages.
Message(category, failure) == Str("[Gimbal: ") \o category.label \o Str("] ") \o failure.label \o Str(": ") \o failure.value \o Str(" (threshold ") \o failure.threshold \o Str(").")

\* results.data.filter(result => !result.success)
FailedCategories(results) == SelectSeq(results.data, LAMBDA result : Not(result.success))

\* category.data.filter(result => !result.success)
FailedReports(category) == SelectSeq(category.data, LAMBDA result : Not(result.success))

\* Variant of Push: the else is missing, so every message is also a warning.
PushNoElse(c, compilation, msg) == IF c.bail THEN [compilation EXCEPT !.errors = Append(@, msg), !.warnings = Append(@, msg)] ELSE [compilation EXCEPT !.warnings = Append(@, msg)]

\* The body of the inner forEach: push msg to the sink cfg.bail selects.
Push(c, compilation, msg) == IF c.bail THEN [compilation EXCEPT !.errors = Append(@, msg)] ELSE [compilation EXCEPT !.warnings = Append(@, msg)]

RECURSIVE ForEachFailure(_, _, _, _)
\* The inner forEach over the failed reports of one category.
ForEachFailure(c, compilation, category, failures) == IF failures = <<>> THEN compilation ELSE ForEachFailure(c, Push(c, compilation, Message(category, Head(failures))), category, Tail(failures))

RECURSIVE ForEachCategory(_, _, _)
\* failed.forEach(category => ...)
ForEachCategory(c, compilation, failed) == IF failed = <<>> THEN compilation ELSE ForEachCategory(c, ForEachFailure(c, compilation, Head(failed), FailedReports(Head(failed))), Tail(failed))

\* processMessages(compilation, results): the compilation's sinks afterwards.
ProcessMessages(c, compilation, results) == ForEachCategory(c, compilation, FailedCategories(results))

\* Variant of AfterAudit: processMessages runs whatever results.success is.
AfterAuditUngated(c, compilation, results) == ProcessMessages(c, compilation, results)

\* `if (results.success === false) this.processMessages(compilation, results)`
AfterAudit(c, compilation, results) == IF StrictlyFalse(results.success) THEN ProcessMessages(c, compilation, results) ELSE compilation

(* ------------------------- done hook: bailout report ------------------ *)

\* String.prototype.match(re) !== null for a regular expression that is an
\* alternation of literals, each either free or anchored at the start (^).
LiteralAt(s, i, lit) == i + Len(lit) - 1 <= Len(s) /\ SubSeq(s, i, i + Len(lit) - 1) = lit

Match(s, re) == \E alt \in re : IF alt.anchored THEN LiteralAt(s, 1, alt.lit) ELSE \E i \in 1..Len(s) : LiteralAt(s, i, alt.lit)

\* Variant of NameRegExp: the ^ of the last alternative is missing.
NameRegExpUnanchored == {[anchored |-> FALSE, lit |-> Str("node_modules")], [anchored |-> FALSE, lit |-> Str("(webpack)")], [anchored |-> FALSE, lit |-> Str("(ignored)")], [anchored |-> FALSE, lit |-> Str("multi")]}

\* /node_modules|\(webpack\)|\(ignored\)|^multi/
NameRegExp == {[anchored |-> FALSE, lit |-> Str("node_modules")], [anchored |-> FALSE, lit |-> Str("(webpack)")], [anchored |-> FALSE, lit |-> Str("(ignored)")], [anchored |-> TRUE, lit |-> Str("multi")]}

\* /import\(\)|HMR/
ReasonRegExp == {[anchored |-> FALSE, lit |-> <<"import", "()">>], [anchored |-> FALSE, lit |-> Str("HMR")]}

RECURSIVE ToString(_)
\* Array.prototype.toString of an array of strings: the elements joined by ','.
ToString(array) == IF array = <<>> THEN <<>> ELSE IF Len(array) = 1 THEN Head(array) ELSE Head(array) \o Str(",") \o ToString(Tail(array))

\* What the map callback returns for a module with no usable bailout list
\* (`false`); a record is a triple, so the two never coincide.
False == <<>>

\* Array.isArray(mod.optimizationBailout) && mod.optimizationBailout.length
HasBailout(mod) == mod.optimizationBailout.isArray /\ Len(mod.optimizationBailout.items) # 0

\* The map callback: [mod.name, mod.optimizationBailout, mod.chunks] or false.
BailoutRecord(mod) == IF HasBailout(mod) THEN <<mod.name, mod.optimizationBailout.items, mod.chunks>> ELSE False

\* ([name]) => !name.match(/node_modules|\(webpack\)|\(ignored\)|^multi/)
NameFilter(record) == ~Match(record[1], NameRegExp)

\* Variant of ReasonFilter: the chunks are searched as well as the reasons.
ReasonFilterWithChunks(record) == ~Match(ToString(record[2]), ReasonRegExp) /\ ~Match(ToString(record[3]), ReasonRegExp)

\* ([, modules]) => !modules.toString().match(/import\(\)|HMR/)
ReasonFilter(record) == ~Match(ToString(record[2]), ReasonRegExp)

\* modules.map(...).filter(Boolean).filter(name filter).filter(reason filter)
Bailout(modules) == SelectSeq(SelectSeq(SelectSeq([i \in 1..Len(modules) |-> BailoutRecord(modules[i])], LAMBDA record : record # False), NameFilter), ReasonFilter)

\* typeof optimizationBailout === 'string' ? optimizationBailout : 'bailout.json'
FileName(optimizationBailout) == IF optimizationBailout.type = "string" THEN optimizationBailout.str ELSE Str("bailout.json")

\* JSON.stringify of a string (the texts here hold nothing to escape).
JSONString(s) == Str("\"") \o s \o Str("\"")

\* JSON.stringify of an array, given its elements' JSON texts.
JSONArray(texts) == Str("[") \o ToString(texts) \o Str("]")

JSONStrings(array) == JSONArray([i \in 1..Len(array) |-> JSONString(array[i])])

\* JSON.stringify(bailout)
JSONStringify(records) == JSONArray([i \in 1..Len(records) |-> JSONArray(<<JSONString(records[i][1]), JSONStrings(records[i][2]), JSONStrings(records[i][3])>>)])

(* --------------------------- stats snapshots -------------------------- *)

CleanName == <<"./src/", "app.js">>

\* Names the name filter is about: one per alternative of the expression,
\* and one that holds `multi` but not at its start.
OtherNames == {<<"node_modules", "/x/index.js">>, <<"(webpack)", "/buildin/global.js">>, <<"./locale ", "(ignored)">>, <<"multi", " ./src/index.js">>, <<"./src/", "multi", ".js">>}

CleanReasons == [isArray |-> TRUE, items |-> <<Str("ModuleConcatenation bailout: Module is not an ECMAScript module")>>]

\* mod.optimizationBailout: missing, empty, with a marker of the reason
\* filter, and with `import` and `()` in two neighbouring reasons.
OtherReasons == {[isArray |-> FALSE, items |-> <<>>], [isArray |-> TRUE, items |-> <<>>], [isArray |-> TRUE, items |-> <<<<"Module is referenced with ", "import", "()">>>>], [isArray |-> TRUE, items |-> <<<<"Module uses ", "HMR">>>>], [isArray |-> TRUE, items |-> <<<<"Module uses ", "import">>, <<"()", " calls">>>>]}

MainChunks == <<Str("main")>>

\* Modules of stats.toJson(...).modules: the clean module, the clean module
\* with one field varied, and a dependency module with a noisy reason.
ModuleInputs ==
  [name : {CleanName}, optimizationBailout : {CleanReasons} \cup OtherReasons, chunks : {MainChunks}]
    \cup [name : OtherNames, optimizationBailout : {CleanReasons}, chunks : {MainChunks}]
    \cup [name : {CleanName}, optimizationBailout : {CleanReasons}, chunks : {<<<<"hot-", "HMR">>>>}]
    \cup [name : {<<"node_modules", "/x/index.js">>}, optimizationBailout : {[isArray |-> TRUE, items |-> <<<<"Module uses ", "HMR">>>>]}, chunks : {MainChunks}]

StatsInputs == SeqsUpTo(ModuleInputs, MaxModules)

(* --------------------------------- state ------------------------------ *)

VARIABLES
  options,      \* the argument of new GimbalPlugin(options)
  cfg,          \* this.cfg
  nodeEnv,      \* process.env.NODE_ENV
  tapped,       \* the hooks apply has tapped: a subset of {"emit", "done"}
  emitPc,       \* position of executeAudits: idle, awaiting, resumed, returned, rejected
  auditCalls,   \* number of calls of audit()
  auditArgs,    \* the option set of the last audit() call
  auditPromise, \* the promise audit() returned: none, pending, fulfilled, rejected
  results,      \* the local `results` of executeAudits
  cbCalls,      \* number of calls of the emit hook's callback cb
  compilation,  \* compilation.errors and compilation.warnings
  donePc,       \* position of the done hook's handler: idle, returned
  modules,      \* stats.toJson(...).modules as the handler read it
  bailout,      \* the local `bailout` of the handler
  doneCalls,    \* number of calls of the done hook's callback
  write         \* the fs.writeFile request: its state, file and data

audit == <<emitPc, auditCalls, auditArgs, auditPromise, results, cbCalls, compilation>>

done == <<donePc, modules, bailout, doneCalls, write>>

vars == <<options, cfg, nodeEnv, tapped, audit, done>>

NodeEnvs == {"production", "development"}

NoArgs == <<>>

NoWrite == [state |-> "none", file |-> <<>>, data |-> <<>>]

Init ==
  /\ options \in ConstructorInputs
  /\ cfg = Constructor(options)
  /\ nodeEnv \in NodeEnvs
  /\ tapped = {}
  /\ emitPc = "idle"
  /\ auditCalls = 0
  /\ auditArgs = NoArgs
  /\ auditPromise = "none"
  /\ results = NoResults
  /\ cbCalls = 0
  /\ compilation = [errors |-> <<>>, warnings |-> <<>>]
  /\ donePc = "idle"
  /\ modules = <<>>
  /\ bailout = <<>>
  /\ doneCalls = 0
  /\ write = NoWrite

(* --------------------------------- apply ------------------------------ *)

\* The hooks apply(compiler) taps: emit always, done when
\* cfg.optimizationBailout is truthy.
AppliedHooks(c) == IF Truthy(c.optimizationBailout) THEN {"emit", "done"} ELSE {"emit"}

Apply ==
  /\ tapped = {}
  /\ tapped' = AppliedHooks(cfg)
  /\ UNCHANGED <<options, cfg, nodeEnv, audit, done>>

(* ----------------------------- executeAudits -------------------------- *)

\* Variant of NotProduction: the comparison is inverted.
NotProductionInverted(env) == env = "production"

\* `process.env.NODE_ENV !== 'production'`
NotProduction(env) == env # "production"

\* The emit hook calls executeAudits outside production: cb() and return.
ExecuteAuditsGuard ==
  /\ "emit" \in tapped
  /\ emitPc = "idle"
  /\ NotProduction(nodeEnv)
  /\ cbCalls' = cbCalls + 1
  /\ emitPc' = "returned"
  /\ UNCHANGED <<options, cfg, nodeEnv, tapped, auditCalls, auditArgs, auditPromise, results, compilation, done>>

\* The emit hook calls executeAudits in production: audit(...) is called and
\* executeAudits suspends at the await.
ExecuteAuditsCall ==
  /\ "emit" \in tapped
  /\ emitPc = "idle"
  /\ ~NotProduction(nodeEnv)
  /\ auditCalls' = auditCalls + 1
  /\ auditArgs' = AuditArguments(cfg)
  /\ auditPromise' = "pending"
  /\ emitPc' = "awaiting"
  /\ UNCHANGED <<options, cfg, nodeEnv, tapped, results, cbCalls, compilation, done>>

\* Variant of AuditResolves: the failure branch calls cb() itself, and the
\* last statement calls it again.
AuditResolvesCallbackInBranch ==
  /\ emitPc = "awaiting"
  /\ \E r \in AuditRuns :
       /\ results' = r
       /\ compilation' = AfterAudit(cfg, compilation, r)
       /\ cbCalls' = IF StrictlyFalse(r.success) THEN cbCalls + 1 ELSE cbCalls
  /\ auditPromise' = "fulfilled"
  /\ emitPc' = "resumed"
  /\ UNCHANGED <<options, cfg, nodeEnv, tapped, auditCalls, auditArgs, done>>

\* audit() resolves: executeAudits resumes, assigns `results` and, when
\* results.success === false, runs processMessages.
AuditResolves ==
  /\ emitPc = "awaiting"
  /\ \E r \in AuditRuns :
       /\ results' = r
       /\ compilation' = AfterAudit(cfg, compilation, r)
  /\ auditPromise' = "fulfilled"
  /\ emitPc' = "resumed"
  /\ UNCHANGED <<options, cfg, nodeEnv, tapped, auditCalls, auditArgs, cbCalls, done>>

\* The last statement of executeAudits: cb(); the function returns and its
\* local `results` goes out of scope.
InvokeCallback ==
  /\ emitPc = "resumed"
  /\ cbCalls' = cbCalls + 1
  /\ results' = NoResults
  /\ emitPc' = "returned"
  /\ UNCHANGED <<options, cfg, nodeEnv, tapped, auditCalls, auditArgs, auditPromise, compilation, done>>

\* Variant of AuditRejects: a catch around the await calls cb() and returns.
AuditRejectsCaught ==
  /\ emitPc = "awaiting"
  /\ auditPromise' = "rejected"
  /\ cbCalls' = cbCalls + 1
  /\ emitPc' = "returned"
  /\ UNCHANGED <<options, cfg, nodeEnv, tapped, auditCalls, auditArgs, results, compilation, done>>

\* audit() rejects (or throws): nothing catches it, so the promise
\* executeAudits returned rejects and the statements after the await never run.
AuditRejects ==
  /\ emitPc = "awaiting"
  /\ auditPromise' = "rejected"
  /\ emitPc' = "rejected"
  /\ UNCHANGED <<options, cfg, nodeEnv, tapped, auditCalls, auditArgs, results, cbCalls, compilation, done>>

(* ------------------------------ done handler -------------------------- *)

\* The done hook calls the handler tapped with tapAsync: it reads the stats,
\* builds `bailout`, calls fs.writeFile (without a callback) and returns. Its
\* only parameter is `stats`: it holds no reference to the hook's callback.
DoneHandler ==
  /\ "done" \in tapped
  /\ emitPc = "returned"
  /\ donePc = "idle"
  /\ \E m \in StatsInputs :
       /\ modules' = m
       /\ bailout' = Bailout(m)
       /\ write' = [state |-> "pending", file |-> FileName(cfg.optimizationBailout), data |-> JSONStringify(Bailout(m))]
  /\ donePc' = "returned"
  /\ UNCHANGED <<options, cfg, nodeEnv, tapped, audit, doneCalls>>

\* The write completes: the file holds the data.
WriteLands ==
  /\ write.state = "pending"
  /\ write' = [write EXCEPT !.state = "landed"]
  /\ UNCHANGED <<options, cfg, nodeEnv, tapped, audit, donePc, modules, bailout, doneCalls>>

\* The write fails; with no callback given nothing in the plugin learns of it.
WriteFails ==
  /\ write.state = "pending"
  /\ write' = [write EXCEPT !.state = "failed"]
  /\ UNCHANGED <<options, cfg, nodeEnv, tapped, audit, donePc, modules, bailout, doneCalls>>

Next ==
  \/ Apply
  \/ ExecuteAuditsGuard
  \/ ExecuteAuditsCall
  \/ AuditResolves
  \/ InvokeCallback
  \/ AuditRejects
  \/ DoneHandler
  \/ WriteLands
  \/ WriteFails

Spec == Init /\ [][Next]_vars

(* ======================================================================= *)
(* Properties                                                              *)
(* ======================================================================= *)

\* Number of diagnostics in the two sinks.
Emitted == Len(compilation.errors) + Len(compilation.warnings)

\* The positions <<job, report>> of a result tree.
ReportPositions(r) == UNION {{<<i, j>> : j \in 1..Len(r.data[i].data)} : i \in 1..Len(r.data)}

\* Number of reports whose success is in `reportIs`, under jobs whose success
\* is in `jobIs`.
CountReports(r, jobIs, reportIs) == Cardinality({p \in ReportPositions(r) : r.data[p[1]].success \in jobIs /\ r.data[p[1]].data[p[2]].success \in reportIs})

\* executeAudits has resumed after the await and has finished its
\* `if (results.success === false)` statement.
Processed == emitPc = "resumed"

(* ------------------------------- C1 ----------------------------------- *)

\* C1 as stated: after executeAudits has processed a result tree, the number
\* of diagnostics in the sinks equals the number of reports with
\* success === false under jobs with success === false.
C1_CountOfStrictFailures == Processed => Emitted = CountReports(results, {"false"}, {"false"})

\* C1 amended: no diagnostic unless the tree's own success is false; when it
\* is, the number of diagnostics equals the number of reports whose success is
\* false or absent under jobs whose success is false or absent.
C1_CountOfNotSucceeded == Processed => Emitted = (IF results.success = "false" THEN CountReports(results, {"false", "absent"}, {"false", "absent"}) ELSE 0)

\* A failed tree gave two diagnostics, more than its strict failures.
C1_Witness == Processed /\ results.success = "false" /\ Emitted = 2 /\ CountReports(results, {"false"}, {"false"}) = 1

(* ------------------------------- C2 ----------------------------------- *)

\* C2: every diagnostic goes to exactly one sink, errors when cfg.bail is
\* true and warnings when it is false: the other sink stays as it was (empty)
\* and the selected one holds every diagnostic of the run, each in the
\* template's form.
C2_ExactlyOneSink ==
  LET selected == IF cfg.bail THEN compilation.errors ELSE compilation.warnings
      other == IF cfg.bail THEN compilation.warnings ELSE compilation.errors
  IN /\ other = <<>>
     /\ Processed /\ results.success = "false" =>
          /\ Len(selected) = CountReports(results, {"false", "absent"}, {"false", "absent"})
          /\ \A p \in ReportPositions(results) :
               results.data[p[1]].success # "true" /\ results.data[p[1]].data[p[2]].success # "true" =>
                 \E k \in 1..Len(selected) : selected[k] = <<"[Gimbal: ", "size", "] ", "main.js", ": ", "500kb", " (threshold ", "400kb", ").">>

\* With bail true two diagnostics went to errors and none to warnings.
C2_Witness == Processed /\ cfg.bail /\ Len(compilation.errors) = 2 /\ compilation.warnings = <<>>

(* ------------------------------- C3 ----------------------------------- *)

\* C3: outside production audit() is never called, no diagnostic is
\* appended, executeAudits never suspends, and once it has run the callback
\* has been called exactly once.
C3_Guard ==
  nodeEnv # "production" =>
    /\ auditCalls = 0
    /\ auditPromise = "none"
    /\ compilation = [errors |-> <<>>, warnings |-> <<>>]
    /\ emitPc \in {"idle", "returned"}
    /\ cbCalls = (IF emitPc = "returned" THEN 1 ELSE 0)

\* executeAudits ran outside production and called back.
C3_Witness == nodeEnv # "production" /\ emitPc = "returned" /\ cbCalls = 1

(* ------------------------------- C4 ----------------------------------- *)

\* The nested options object the caller gave ({} when none).
GivenOptions == IF "options" \in DOMAIN options THEN options.options ELSE <<>>

\* What C4 says a nested key holds: the caller's value, else the default.
ExpectedOption(k) == IF k \in DOMAIN GivenOptions THEN GivenOptions[k] ELSE DefaultOptions[k]

\* C4 as stated: cfg is complete: every top-level key and every nested key
\* holds the caller's value if the caller set it and its default otherwise,
\* and the option set handed to audit() carries the same nested values.
C4_CompleteConfiguration ==
  /\ \A k \in {"bail", "optimizationBailout"} : k \in DOMAIN cfg /\ cfg[k] = (IF k \in DOMAIN options THEN options[k] ELSE Defaults[k])
  /\ "options" \in DOMAIN cfg
  /\ \A k \in OptionKeys : k \in DOMAIN cfg.options /\ cfg.options[k] = ExpectedOption(k)
  /\ auditCalls = 1 => \A k \in OptionKeys : k \in DOMAIN auditArgs /\ auditArgs[k] = ExpectedOption(k)

(* ------------------------------- C5 ----------------------------------- *)

\* s holds p as a contiguous part.
Contains(s, p) == \E i \in 0..(Len(s) - Len(p)) : \A k \in 1..Len(p) : s[i + k] = p[k]

StartsWith(s, p) == Len(p) <= Len(s) /\ SubSeq(s, 1, Len(p)) = p

\* The names C5 excludes.
NoisyName(name) == Contains(name, <<"node_modules">>) \/ Contains(name, <<"(webpack)">>) \/ Contains(name, <<"(ignored)">>) \/ StartsWith(name, <<"multi">>)

\* Some reason of the module holds `import()` or `HMR`.
NoisyReasons(mod) == \E k \in 1..Len(mod.optimizationBailout.items) : Contains(mod.optimizationBailout.items[k], <<"import", "()">>) \/ Contains(mod.optimizationBailout.items[k], <<"HMR">>)

Triple(mod) == <<mod.name, mod.optimizationBailout.items, mod.chunks>>

\* The modules C5 says appear in the report.
Reported == {i \in 1..Len(modules) : modules[i].optimizationBailout.isArray /\ modules[i].optimizationBailout.items # <<>> /\ ~NoisyName(modules[i].name) /\ ~NoisyReasons(modules[i])}

\* The done handler has run.
Handled == donePc = "returned"

\* C5: no module with a noisy name has a record in the report, nor its name
\* in the text written; the modules with a non-empty reason list, a name
\* that is not noisy and reasons that pass the reason filter appear as
\* [name, reasons, chunks], in module order, and their names are in the text.
C5_NameFilter ==
  Handled =>
    /\ \A i \in 1..Len(modules) : NoisyName(modules[i].name) =>
         /\ \A k \in 1..Len(bailout) : bailout[k][1] # modules[i].name
         /\ ~Contains(write.data, <<"\"">> \o modules[i].name \o <<"\"">>)
    /\ Len(bailout) = Cardinality(Reported)
    /\ \A i \in Reported :
         /\ bailout[Cardinality({j \in Reported : j <= i})] = Triple(modules[i])
         /\ Contains(write.data, <<"\"">> \o modules[i].name \o <<"\"">>)

\* A module with a noisy name and a usable reason list was dropped, and the
\* module after it was reported.
C5_Witness == Handled /\ Len(modules) = 2 /\ NoisyName(modules[1].name) /\ modules[1].optimizationBailout.items # <<>> /\ bailout = <<Triple(modules[2])>>

(* ------------------------------- C6 ----------------------------------- *)

\* Some chunk of the module holds `import()` or `HMR`.
NoisyChunks(mod) == \E k \in 1..Len(mod.chunks) : Contains(mod.chunks[k], <<"import", "()">>) \/ Contains(mod.chunks[k], <<"HMR">>)

\* C6 as stated: a module whose reasons or chunks hold `import()` or `HMR`
\* has no record in the report.
C6_ReasonsOrChunks == Handled => \A i \in 1..Len(modules) : NoisyReasons(modules[i]) \/ NoisyChunks(modules[i]) => \A k \in 1..Len(bailout) : bailout[k] # Triple(modules[i])

\* C6 amended: a module one of whose reasons holds `import()` or `HMR` has no
\* record in the report; the chunks are not searched: a module with a usable
\* reason list, a name that is not noisy and no such reason has a record,
\* whatever its chunks hold.
C6_ReasonsOnly ==
  Handled => \A i \in 1..Len(modules) :
    /\ NoisyReasons(modules[i]) => \A k \in 1..Len(bailout) : bailout[k] # Triple(modules[i])
    /\ i \in Reported => \E k \in 1..Len(bailout) : bailout[k] = Triple(modules[i])

\* A module with a noisy reason was dropped and one with a noisy chunk kept.
C6_Witness == Handled /\ Len(modules) = 2 /\ NoisyReasons(modules[1]) /\ ~NoisyName(modules[1].name) /\ NoisyChunks(modules[2]) /\ bailout = <<Triple(modules[2])>>

(* ------------------------------- C7 ----------------------------------- *)

\* C7 as stated, at the end of the done pipeline: once the handler has
\* returned and the write has settled, the done hook's callback has been
\* called (it was to be called without waiting for the write).
C7_DoneSignalFires == Handled /\ write.state \in {"landed", "failed"} => doneCalls >= 1

(* ------------------------------- C8 ----------------------------------- *)

\* No job of the tree is explicitly failed.
NoJobFalse(r) == \A i \in 1..Len(r.data) : r.data[i].success # "false"

\* C8 as stated: jobs whose success is absent contribute no diagnostic, so a
\* failed tree without an explicitly failed job gives none.
C8_AbsentJobDropped == Processed /\ results.success = "false" /\ NoJobFalse(results) => Emitted = 0

\* C8 amended: a job whose success is absent is selected like a failed one:
\* in a failed tree without an explicitly failed job, every report that is
\* false or absent under a job that is absent gives one diagnostic, and the
\* jobs whose success is true give none.
C8_AbsentJobSelected == Processed /\ results.success = "false" /\ NoJobFalse(results) => Emitted = CountReports(results, {"absent"}, {"false", "absent"})

\* An absent job's failed report gave a diagnostic.
C8_Witness == Processed /\ results.success = "false" /\ NoJobFalse(results) /\ CountReports(results, {"absent"}, {"false"}) = 1 /\ Emitted = 1

(* ------------------------------- C9 ----------------------------------- *)

\* C9: in production audit() is called once per invocation; the callback is
\* called at most once, only after audit() has resolved and the diagnostics
\* are in their sinks; when executeAudits has resumed the call of cb is what
\* comes next, and once it has been made no diagnostic is appended.
C9_CallbackAfterDiagnostics ==
  /\ [](nodeEnv = "production" =>
          /\ auditCalls <= 1
          /\ cbCalls <= 1
          /\ emitPc \in {"awaiting", "resumed", "returned", "rejected"} => auditCalls = 1
          /\ Processed => cbCalls = 0 /\ auditPromise = "fulfilled" /\ ENABLED InvokeCallback
          /\ cbCalls = 1 <=> emitPc = "returned"
          /\ emitPc = "returned" => auditPromise = "fulfilled")
  /\ [][nodeEnv = "production" /\ cbCalls' # cbCalls => Processed /\ cbCalls' = 1 /\ compilation' = compilation]_vars
  /\ [][nodeEnv = "production" /\ cbCalls >= 1 => compilation' = compilation /\ cbCalls' = cbCalls]_vars

\* A production run resolved, appended a diagnostic and called back.
C9_Witness == nodeEnv = "production" /\ emitPc = "returned" /\ cbCalls = 1 /\ auditCalls = 1 /\ Emitted = 2

(* ------------------------------- C10 ---------------------------------- *)

\* C10: when audit() has rejected, executeAudits has rejected too, no
\* diagnostic is in a sink and the callback has not been called.
C10_RejectionPropagates == auditPromise = "rejected" => emitPc = "rejected" /\ cbCalls = 0 /\ compilation = [errors |-> <<>>, warnings |-> <<>>]

\* audit() was called in production and rejected.
C10_Witness == auditPromise = "rejected" /\ auditCalls = 1 /\ nodeEnv = "production" /\ emitPc = "rejected"

====
